---- MODULE Spec2Model ----
(***************************************************************************)
(* Model of app.py: the paginated fetcher fetch_all_room_data, the FTP     *)
(* store adapter (download_ftp_file, upload_ftp_file) and main, the        *)
(* orchestrator with its group-by-room_id / idxmax reconciliation.         *)
(*                                                                         *)
(* Strings are sequences of one-character strings, so that str() and       *)
(* pd.to_numeric are conversions and not the identity.                     *)
(***************************************************************************)
EXTENDS Integers, Sequences, FiniteSets, TLC

VARIABLES
    pc,             \* position of main
    event_ids,      \* the parsed event ids (main, lines 135-140)
    idx,            \* position of the for loop of main (line 155)
    new_data_list,  \* records collected over all events (line 153)
    cache,          \* st.cache_data of fetch_all_room_data (line 16)
    report,         \* the diagnostics main has shown (st.error / st.warning)
    page,           \* fetch_all_room_data: page cursor
    all_rooms,      \* fetch_all_room_data: accumulated records
    fstate,         \* fetch_all_room_data: "idle", "running", "exhausted", "aborted"
    requests,       \* number of requests.get calls of the running invocation
    api,            \* what the listing API has served for each page requested
    errors,         \* the st.error reports of fetch_all_room_data (lines 74, 77)
    ftp,            \* the FTP session: "none", "open", "closed"
    ops,            \* FTP commands issued, each with the session state it met
    existing_df,    \* the downloaded table
    final_df,       \* the reconciled table
    recon,          \* outcome of the reconciliation step: "none", "ok", "raised"
    remote          \* the remote file

mainVars  == <<pc, event_ids, idx, new_data_list, cache, report>>
fetchVars == <<page, all_rooms, fstate, requests, api, errors>>
storeVars == <<ftp, ops, existing_df, final_df, recon, remote>>
vars      == <<pc, event_ids, idx, new_data_list, cache, report,
               page, all_rooms, fstate, requests, api, errors,
               ftp, ops, existing_df, final_df, recon, remote>>

----------------------------------------------------------------------------
(* Bounds *)

MaxPage == 3
MaxItems == 2
MaxRooms == 3
MaxRequests == 4
MaxEvents == 2
MaxExisting == 1
MaxIncoming == 2

----------------------------------------------------------------------------
(* Strings and JSON values *)

Digits == <<"0", "1", "2", "3", "4", "5", "6", "7", "8", "9">>

Chars == Digits \o <<"x">>

CharRank(c) == CHOOSE i \in 1..Len(Chars) : Chars[i] = c

IsDigit(c) == \E i \in 1..Len(Digits) : Digits[i] = c

DigitVal(c) == (CHOOSE i \in 1..Len(Digits) : Digits[i] = c) - 1

SeqsUpTo(S, n) == UNION {[1..k -> S] : k \in 0..n}

\* A JSON scalar as room_data.get(...) sees it: absent key, null, int or string.
JAbsent == [t |-> "absent", n |-> 0, s |-> <<>>]
JNull == [t |-> "null", n |-> 0, s |-> <<>>]
JInt(k) == [t |-> "int", n |-> k, s |-> <<>>]
JStr(str) == [t |-> "str", n |-> 0, s |-> str]

\* dict.get(key): an absent key reads as None.
Get(v) == IF v.t = "absent" THEN JNull ELSE v

\* Python truthiness of None, an int or a string.
Truthy(v) ==
    CASE v.t = "int" -> v.n # 0
      [] v.t = "str" -> v.s # <<>>
      [] OTHER -> FALSE

RECURSIVE IntToStr(_)
IntToStr(k) ==
    IF k < 10 THEN <<Digits[k + 1]>>
    ELSE IntToStr(k \div 10) \o <<Digits[(k % 10) + 1]>>

\* str(value) of a truthy int or string.
Str(v) == IF v.t = "int" THEN IntToStr(v.n) ELSE v.s

\* The event_entry field: absent, null, or an object holding event_id.
EntryAbsent == [t |-> "absent", event_id |-> JAbsent]
EntryNull == [t |-> "null", event_id |-> JAbsent]
EntryObj(e) == [t |-> "obj", event_id |-> e]

Item(r, e) == [room_id |-> r, event_entry |-> e]

NoPage == [t |-> "null", n |-> 0]
PageNo(k) == [t |-> "int", n |-> k]

OkResponse(l, nx) == [kind |-> "ok", list |-> l, next_page |-> nx]
FailResponse(k) == [kind |-> k, list |-> <<>>, next_page |-> NoPage]

----------------------------------------------------------------------------
(* fetch_all_room_data *)

\* The for loop over room_list (lines 46-59). entry_data.get on a null
\* event_entry raises AttributeError, which leaves the loop.
RECURSIVE ProcessRoomList(_, _, _)
ProcessRoomList(room_list, i, rooms) ==
    IF i > Len(room_list) THEN [rooms |-> rooms, raised |-> FALSE]
    ELSE LET room_data == room_list[i]
             room_id == Get(room_data.room_id)
             entry_data == room_data.event_entry
         IN  IF entry_data.t = "null" THEN [rooms |-> rooms, raised |-> TRUE]
             ELSE LET current_event_id == Get(entry_data.event_id)
                  IN  IF Truthy(room_id) /\ Truthy(current_event_id)
                      THEN ProcessRoomList(room_list, i + 1,
                               Append(rooms, [room_id |-> Str(room_id),
                                              event_id |-> Str(current_event_id)]))
                      ELSE ProcessRoomList(room_list, i + 1, rooms)

\* The cursor test of line 65.
StopsPaging(next_page, p) == next_page.t = "null" \/ next_page.n = p

\* Iteration with the accumulated records lost when the request fails.
IterationDropsRooms(resp, p, rooms) ==
    IF resp.kind # "ok"
    THEN [all_rooms |-> <<>>, page |-> p, fstate |-> "aborted"]
    ELSE IF resp.list = <<>>
    THEN [all_rooms |-> rooms, page |-> p, fstate |-> "exhausted"]
    ELSE LET r == ProcessRoomList(resp.list, 1, rooms)
         IN  IF r.raised
             THEN [all_rooms |-> r.rooms, page |-> p, fstate |-> "aborted"]
             ELSE IF StopsPaging(resp.next_page, p)
             THEN [all_rooms |-> r.rooms, page |-> p, fstate |-> "exhausted"]
             ELSE [all_rooms |-> r.rooms, page |-> resp.next_page.n,
                   fstate |-> "running"]

\* One iteration of the while loop (lines 27-78) on the response resp.
Iteration(resp, p, rooms) ==
    IF resp.kind # "ok"
    THEN [all_rooms |-> rooms, page |-> p, fstate |-> "aborted"]
    ELSE IF resp.list = <<>>
    THEN [all_rooms |-> rooms, page |-> p, fstate |-> "exhausted"]
    ELSE LET r == ProcessRoomList(resp.list, 1, rooms)
         IN  IF r.raised
             THEN [all_rooms |-> r.rooms, page |-> p, fstate |-> "aborted"]
             ELSE IF StopsPaging(resp.next_page, p)
             THEN [all_rooms |-> r.rooms, page |-> p, fstate |-> "exhausted"]
             ELSE [all_rooms |-> r.rooms, page |-> resp.next_page.n,
                   fstate |-> "running"]

\* The responses the model lets the API give.
GoodA == Item(JInt(1), EntryObj(JInt(5)))
GoodB == Item(JStr(<<"2">>), EntryObj(JStr(<<"7">>)))
RoomAbsent == Item(JAbsent, EntryObj(JInt(5)))
RoomNull == Item(JNull, EntryObj(JStr(<<"7">>)))
NoEntry == Item(JInt(1), EntryAbsent)
NullEntry == Item(JStr(<<"2">>), EntryNull)
EventAbsent == Item(JInt(1), EntryObj(JAbsent))
EventNull == Item(JStr(<<"2">>), EntryObj(JNull))

Items == {GoodA, GoodB, RoomAbsent, RoomNull, NoEntry, NullEntry,
          EventAbsent, EventNull}

FailKinds == {"timeout", "status", "badjson"}

NextPages == {NoPage} \cup {PageNo(k) : k \in 1..MaxPage}

ResponsesOver(lists) ==
    {OkResponse(l, nx) : l \in lists, nx \in NextPages}
        \cup {FailResponse(k) : k \in FailKinds}

SimpleLists == {<<>>, <<GoodA>>, <<GoodB>>, <<EventNull>>}

\* Every item shape on the first page, plain pages after it.
FetchResponses ==
    [p \in 1..MaxPage |->
        IF p = 1 THEN ResponsesOver(SeqsUpTo(Items, MaxItems))
        ELSE ResponsesOver(SimpleLists)]

\* For main: pages of one record, cursors among the first two pages.
MainResponses ==
    [p \in 1..MaxPage |->
        {OkResponse(l, nx) : l \in {<<>>, <<GoodA>>, <<GoodB>>},
                             nx \in {NoPage, PageNo(1), PageNo(2)}}
            \cup {FailResponse(k) : k \in FailKinds}]

Fits(resp) == Len(all_rooms) + Len(resp.list) <= MaxRooms

Terminal == {"exhausted", "aborted"}

\* The report of the except clauses of lines 73-78: a failed request, or an
\* exception raised while the items of a served page were processed.
FetchError(resp) ==
    [event_id |-> event_ids[idx], page |-> page,
     kind |-> IF resp.kind = "ok" THEN "item" ELSE resp.kind]

\* requests.get for the current page and the processing of its response.
\* The API answers a page it has served before as it did then.
FetchRequest(Resps) ==
    /\ fstate = "running"
    /\ \E resp \in (IF page \in DOMAIN api THEN {api[page]} ELSE Resps[page]) :
        /\ Fits(resp)
        /\ api' = IF page \in DOMAIN api THEN api ELSE api @@ (page :> resp)
        /\ requests' = IF requests < MaxRequests THEN requests + 1 ELSE requests
        /\ LET r == Iteration(resp, page, all_rooms)
           IN  /\ all_rooms' = r.all_rooms
               /\ page' = r.page
               /\ fstate' = r.fstate
               /\ errors' = IF r.fstate = "aborted"
                             THEN errors \cup {FetchError(resp)}
                             ELSE errors
    /\ UNCHANGED <<mainVars, storeVars>>

NoApi == [p \in {} |-> FailResponse("timeout")]

NoTable == [exists |-> FALSE, rows |-> <<>>]

EventIds == {"40883", "40884"}

NoCache == [e \in {} |-> <<>>]

InitFetch ==
    /\ pc = "fetching"
    /\ event_ids = <<"40883">>
    /\ idx = 1
    /\ new_data_list = <<>>
    /\ cache = NoCache
    /\ report = "none"
    /\ page = 1
    /\ all_rooms = <<>>
    /\ fstate = "running"
    /\ requests = 0
    /\ api = NoApi
    /\ errors = {}
    /\ ftp = "none"
    /\ ops = <<>>
    /\ existing_df = <<>>
    /\ final_df = <<>>
    /\ recon = "none"
    /\ remote = NoTable

FetchLoop == FetchRequest(FetchResponses)

NextFetch == FetchLoop

SpecFetch == InitFetch /\ [][NextFetch]_vars

FairSpecFetch == SpecFetch /\ WF_vars(NextFetch)

----------------------------------------------------------------------------
(* Reconciliation: lines 192-211 of main *)

NaN == [nan |-> TRUE, v |-> 0]

RECURSIVE DecVal(_)
DecVal(str) ==
    IF str = <<>> THEN 0
    ELSE DecVal(SubSeq(str, 1, Len(str) - 1)) * 10 + DigitVal(str[Len(str)])

\* pd.to_numeric(errors='coerce') on one cell: a run of decimal digits is its
\* value (leading zeros included), anything else is NaN.
ToNumeric(str) ==
    IF str = <<>> \/ \E i \in 1..Len(str) : ~IsDigit(str[i]) THEN NaN
    ELSE [nan |-> FALSE, v |-> DecVal(str)]

\* Order of Python strings.
StrLess(a, b) ==
    \E k \in 1..(Len(a) + 1) :
        /\ \A j \in 1..(k - 1) : j <= Len(b) /\ a[j] = b[j]
        /\ \/ k > Len(a) /\ Len(b) >= k
           \/ k <= Len(a) /\ k <= Len(b) /\ CharRank(a[k]) < CharRank(b[k])

\* The group keys of groupby('room_id'): the distinct room ids, sorted.
RECURSIVE SortedKeys(_)
SortedKeys(S) ==
    IF S = {} THEN <<>>
    ELSE LET m == CHOOSE x \in S : \A y \in S \ {x} : StrLess(x, y)
         IN  <<m>> \o SortedKeys(S \ {m})

\* Better with a later equal row replacing the best row so far.
BetterOrEqual(candidate, best) == candidate.v >= best.v

\* A later row replaces the best row so far only when strictly greater.
Better(candidate, best) == candidate.v > best.v

\* idxmax of event_id_num over the rows of one room: the label of the first
\* row holding the greatest value, NaN rows skipped; 0 stands for the NaN
\* label pandas returns for a group of NaN rows only.
RECURSIVE IdxMaxScan(_, _, _, _, _)
IdxMaxScan(df, nums, key, i, best) ==
    IF i > Len(df) THEN best
    ELSE IF df[i].room_id # key \/ nums[i].nan
    THEN IdxMaxScan(df, nums, key, i + 1, best)
    ELSE IF best = 0 \/ Better(nums[i], nums[best])
    THEN IdxMaxScan(df, nums, key, i + 1, i)
    ELSE IdxMaxScan(df, nums, key, i + 1, best)

IdxMax(df, nums, key) == IdxMaxScan(df, nums, key, 1, 0)

\* concat, to_numeric, groupby.idxmax, .loc and the column selection. .loc
\* with a NaN label raises (as does idxmax itself in later pandas).
Reconcile(existing, new) ==
    LET combined_df == IF existing # <<>> THEN existing \o new ELSE new
        event_id_num ==
            [i \in 1..Len(combined_df) |-> ToNumeric(combined_df[i].event_id)]
        keys == SortedKeys({combined_df[i].room_id : i \in 1..Len(combined_df)})
        labels ==
            [k \in 1..Len(keys) |-> IdxMax(combined_df, event_id_num, keys[k])]
    IN  IF \E k \in 1..Len(keys) : labels[k] = 0
        THEN [raised |-> TRUE, df |-> <<>>]
        ELSE [raised |-> FALSE,
              df |-> [k \in 1..Len(keys) |->
                         [room_id |-> combined_df[labels[k]].room_id,
                          event_id |-> combined_df[labels[k]].event_id]]]

----------------------------------------------------------------------------
(* main and the store adapter *)

Rec(r, e) == [room_id |-> r, event_id |-> e]

Op(name) == [op |-> name, met |-> ftp]

\* Lines 142-150: no event id, no run.
ParseInput ==
    /\ pc = "start"
    /\ IF event_ids = <<>>
       THEN pc' = "done" /\ report' = "no_input"
       ELSE pc' = "fetch" /\ report' = report
    /\ UNCHANGED <<event_ids, idx, new_data_list, cache, fetchVars, storeVars>>

\* Lines 155-157 with the st.cache_data wrapper of line 16: a cached event id
\* is answered without running the function.
FetchCall ==
    /\ pc = "fetch"
    /\ idx <= Len(event_ids)
    /\ IF event_ids[idx] \in DOMAIN cache
       THEN /\ new_data_list' = new_data_list \o cache[event_ids[idx]]
            /\ idx' = idx + 1
            /\ UNCHANGED <<pc, fetchVars>>
       ELSE /\ pc' = "fetching"
            /\ fstate' = "running"
            /\ page' = 1
            /\ all_rooms' = <<>>
            /\ requests' = 0
            /\ api' = NoApi
            /\ errors' = errors
            /\ UNCHANGED <<new_data_list, idx>>
    /\ UNCHANGED <<event_ids, cache, report, storeVars>>

\* Line 80 and lines 156-157: return all_rooms, extend new_data_list.
FetchReturn ==
    /\ pc = "fetching"
    /\ fstate \in Terminal
    /\ cache' = cache @@ (event_ids[idx] :> all_rooms)
    /\ new_data_list' = new_data_list \o all_rooms
    /\ idx' = idx + 1
    /\ pc' = "fetch"
    /\ fstate' = "idle"
    /\ page' = 1
    /\ all_rooms' = <<>>
    /\ requests' = 0
    /\ api' = NoApi
    /\ errors' = errors
    /\ UNCHANGED <<event_ids, report, storeVars>>

\* CheckEmpty without the return of line 161.
CheckEmptyProceeds ==
    /\ pc = "fetch"
    /\ idx > Len(event_ids)
    /\ pc' = "secrets"
    /\ report' = IF new_data_list = <<>> THEN "no_rooms" ELSE report
    /\ UNCHANGED <<event_ids, idx, new_data_list, cache, fetchVars, storeVars>>

\* Lines 159-169.
CheckEmpty ==
    /\ pc = "fetch"
    /\ idx > Len(event_ids)
    /\ IF new_data_list = <<>>
       THEN pc' = "done" /\ report' = "no_rooms"
       ELSE pc' = "secrets" /\ report' = report
    /\ UNCHANGED <<event_ids, idx, new_data_list, cache, fetchVars, storeVars>>

\* Lines 176-179 and 220-221.
Secrets ==
    /\ pc = "secrets"
    /\ \/ pc' = "connect" /\ report' = report
       \/ pc' = "done" /\ report' = "secrets_error"
    /\ UNCHANGED <<event_ids, idx, new_data_list, cache, fetchVars, storeVars>>

\* Line 182: FTP(ftp_host) connects, or raises before the with block.
Connect ==
    /\ pc = "connect"
    /\ \/ /\ ftp' = "open"
          /\ ops' = Append(ops, Op("connect"))
          /\ pc' = "login"
          /\ report' = report
       \/ /\ pc' = "done"
          /\ report' = "fatal"
          /\ UNCHANGED <<ftp, ops>>
    /\ UNCHANGED <<event_ids, idx, new_data_list, cache, fetchVars,
                   existing_df, final_df, recon, remote>>

\* Lines 183-185.
Login ==
    /\ pc = "login"
    /\ ops' = Append(ops, Op("login"))
    /\ pc' \in {"download", "exit_fatal"}
    /\ UNCHANGED <<event_ids, idx, new_data_list, cache, report, fetchVars,
                   ftp, existing_df, final_df, recon, remote>>

\* download_ftp_file (lines 83-102): the table, or an empty one on any error.
Download ==
    /\ pc = "download"
    /\ ops' = Append(ops, Op("download"))
    /\ \/ remote.exists /\ existing_df' = remote.rows
       \/ existing_df' = <<>>
    /\ pc' = "reconcile"
    /\ UNCHANGED <<event_ids, idx, new_data_list, cache, report, fetchVars,
                   ftp, final_df, recon, remote>>

\* Lines 192-215. The exception is a KeyError or a ValueError by the pandas
\* version, so either handler of lines 220-223 may take it.
MainReconcile ==
    /\ pc = "reconcile"
    /\ LET r == Reconcile(existing_df, new_data_list)
       IN  IF r.raised
           THEN /\ recon' = "raised"
                /\ pc' \in {"exit_keyerror", "exit_fatal"}
                /\ final_df' = final_df
           ELSE /\ recon' = "ok"
                /\ pc' = "upload"
                /\ final_df' = r.df
    /\ UNCHANGED <<event_ids, idx, new_data_list, cache, report, fetchVars,
                   ftp, ops, existing_df, remote>>

\* upload_ftp_file (lines 105-121): a failure is reported, not raised.
Upload ==
    /\ pc = "upload"
    /\ ops' = Append(ops, Op("upload"))
    /\ \/ remote' = [exists |-> TRUE, rows |-> final_df] /\ report' = report
       \/ remote' = remote /\ report' = "upload_error"
    /\ pc' = "exit_ok"
    /\ UNCHANGED <<event_ids, idx, new_data_list, cache, fetchVars,
                   ftp, existing_df, final_df, recon>>

\* SessionExit with the session left open when an exception leaves the block.
SessionExitLeaks ==
    /\ pc \in {"exit_ok", "exit_keyerror", "exit_fatal"}
    /\ IF pc = "exit_ok"
       THEN ops' = Append(ops, Op("quit")) /\ ftp' = "closed"
       ELSE ops' = ops /\ ftp' = ftp
    /\ report' = CASE pc = "exit_keyerror" -> "secrets_error"
                   [] pc = "exit_fatal" -> "fatal"
                   [] OTHER -> report
    /\ pc' = "done"
    /\ UNCHANGED <<event_ids, idx, new_data_list, cache, fetchVars,
                   existing_df, final_df, recon, remote>>

\* Leaving the with block of line 182 (FTP.__exit__: quit, close), then the
\* handlers of lines 220-223.
SessionExit ==
    /\ pc \in {"exit_ok", "exit_keyerror", "exit_fatal"}
    /\ ops' = Append(ops, Op("quit"))
    /\ ftp' = "closed"
    /\ report' = CASE pc = "exit_keyerror" -> "secrets_error"
                   [] pc = "exit_fatal" -> "fatal"
                   [] OTHER -> report
    /\ pc' = "done"
    /\ UNCHANGED <<event_ids, idx, new_data_list, cache, fetchVars,
                   existing_df, final_df, recon, remote>>

MainFetchLoop == FetchRequest(MainResponses)

RoomStrs == {<<"1">>, <<"2">>}

EventStrs == {<<"5">>, <<"0", "5">>, <<"7">>, <<"x">>}

Records == {Rec(r, e) : r \in RoomStrs, e \in EventStrs}

MainTables == SeqsUpTo({Rec(<<"1">>, <<"7">>), Rec(<<"2">>, <<"x">>)}, 1)

Init ==
    /\ pc = "start"
    /\ event_ids \in SeqsUpTo(EventIds, MaxEvents)
    /\ idx = 1
    /\ new_data_list = <<>>
    /\ cache = NoCache
    /\ report = "none"
    /\ page = 1
    /\ all_rooms = <<>>
    /\ fstate = "idle"
    /\ requests = 0
    /\ api = NoApi
    /\ errors = {}
    /\ ftp = "none"
    /\ ops = <<>>
    /\ existing_df = <<>>
    /\ final_df = <<>>
    /\ recon = "none"
    /\ remote \in {NoTable} \cup {[exists |-> TRUE, rows |-> t] : t \in MainTables}

Next ==
    \/ ParseInput
    \/ FetchCall
    \/ MainFetchLoop
    \/ FetchReturn
    \/ CheckEmpty
    \/ Secrets
    \/ Connect
    \/ Login
    \/ Download
    \/ MainReconcile
    \/ Upload
    \/ SessionExit

Spec == Init /\ [][Next]_vars

FairSpec == Spec /\ WF_vars(Next)

\* The state of main after the download, for every table and every fetch
\* result within the bounds.
InitRecon ==
    /\ pc = "reconcile"
    /\ event_ids = <<"40883">>
    /\ idx = 2
    /\ new_data_list \in SeqsUpTo(Records, MaxIncoming) \ {<<>>}
    /\ cache = ("40883" :> new_data_list)
    /\ report = "none"
    /\ page = 1
    /\ all_rooms = <<>>
    /\ fstate = "idle"
    /\ requests = 0
    /\ api = NoApi
    /\ errors = {}
    /\ ftp = "open"
    /\ ops = <<[op |-> "connect", met |-> "none"], [op |-> "login", met |-> "open"],
               [op |-> "download", met |-> "open"]>>
    /\ existing_df \in SeqsUpTo(Records, MaxExisting)
    /\ final_df = <<>>
    /\ recon = "none"
    /\ remote = [exists |-> existing_df # <<>>, rows |-> existing_df]

NextRecon == MainReconcile \/ Upload \/ SessionExit

SpecRecon == InitRecon /\ [][NextRecon]_vars

----------------------------------------------------------------------------
(* Claims about fetch_all_room_data *)

\* An item carries both identifiers.
HasBoth(item) ==
    /\ item.room_id.t \in {"int", "str"}
    /\ item.event_entry.t = "obj"
    /\ item.event_entry.event_id.t \in {"int", "str"}

RecordOf(item) ==
    [room_id |-> Str(item.room_id), event_id |-> Str(item.event_entry.event_id)]

RECURSIVE ValidRecords(_)
ValidRecords(list) ==
    IF list = <<>> THEN <<>>
    ELSE (IF HasBoth(Head(list)) THEN <<RecordOf(Head(list))>> ELSE <<>>)
             \o ValidRecords(Tail(list))

\* A step of the loop: one request and the processing of its response,
\* which is api'[page].
RequestStep == fstate = "running" /\ fetchVars' # fetchVars

\* The accumulated list cannot take the page the API serves next.
BoundReached ==
    fstate = "running" /\ page \in DOMAIN api /\ ~Fits(api[page])

\* Every page served so far is a successful one and, when not empty, points
\* to the page after it.
ServesChain ==
    \A p \in DOMAIN api :
        /\ api[p].kind = "ok"
        /\ api[p].list # <<>> => api[p].next_page = PageNo(p + 1)

RECURSIVE ChainRecords(_)
ChainRecords(n) ==
    IF n = 0 THEN <<>> ELSE ChainRecords(n - 1) \o ValidRecords(api[n].list)

\* C7: against an API serving n non-empty pages, each pointing to the next,
\* and then an empty page, the fetch makes exactly n+1 requests, the k-th for
\* page k, and returns the records of pages 1..n in page order.
PaginationToExhaustion ==
    ServesChain =>
        /\ fstate = "running" => page = requests + 1 /\ DOMAIN api = 1..requests
        /\ fstate \in Terminal =>
            \E n \in 0..MaxPage :
                /\ DOMAIN api = 1..(n + 1)
                /\ api[n + 1].list = <<>>
                /\ requests = n + 1
                /\ fstate = "exhausted"
                /\ all_rooms = ChainRecords(n)

\* C8: when the first page's next_page is null or equal to the page just
\* requested, the fetch ends normally after exactly one request and returns
\* the records of that page.
NoProgressTermination ==
    (/\ 1 \in DOMAIN api
     /\ api[1].kind = "ok"
     /\ StopsPaging(api[1].next_page, 1)) =>
        /\ fstate = "exhausted"
        /\ requests = 1
        /\ all_rooms = ValidRecords(api[1].list)

\* C9: whatever the API serves, the loop eventually reaches "exhausted" or
\* "aborted" (as far as the accumulated list stays within the model's bound).
FetchTerminates == <>(fstate \in Terminal \/ BoundReached)

\* C10: a page holding an item without a participant or event identifier has
\* that item skipped and no other: every item with both identifiers is
\* appended and paging goes on as the cursor says.
SkipByExclusion ==
    [][(/\ RequestStep
        /\ api'[page].kind = "ok"
        /\ \E i \in 1..Len(api'[page].list) : ~HasBoth(api'[page].list[i])) =>
            /\ all_rooms' = all_rooms \o ValidRecords(api'[page].list)
            /\ IF StopsPaging(api'[page].next_page, page)
               THEN fstate' = "exhausted" /\ page' = page
               ELSE fstate' = "running" /\ page' = api'[page].next_page.n]_vars

----------------------------------------------------------------------------
(* Claims about the reconciliation *)

Combined == existing_df \o new_data_list

RowsOf(df, p) == {i \in 1..Len(df) : df[i].room_id = p}

Parses(rec) == ~ToNumeric(rec.event_id).nan

NumOf(rec) == ToNumeric(rec.event_id).v

RoomsOf(df) == {df[i].room_id : i \in 1..Len(df)}

\* The rows of p in the working collection that hold p's greatest number.
MaxRows(p) ==
    {i \in RowsOf(Combined, p) :
        /\ Parses(Combined[i])
        /\ \A j \in RowsOf(Combined, p) :
               Parses(Combined[j]) => NumOf(Combined[j]) <= NumOf(Combined[i])}

Least(S) == CHOOSE i \in S : \A j \in S : i <= j

Greatest(S) == CHOOSE i \in S : \A j \in S : j <= i

OutputFor(p) == {final_df[k] : k \in RowsOf(final_df, p)}

AllUnparseable(p) ==
    /\ RowsOf(Combined, p) # {}
    /\ \A i \in RowsOf(Combined, p) : ~Parses(Combined[i])

\* C1: a participant with one record in the existing table and one in the
\* incoming list, of numerically different event ids, has in the reconciled
\* output the record with the larger event id and no other.
LatestWins ==
    recon # "none" =>
        \A p \in RoomStrs :
            \A i \in RowsOf(existing_df, p), j \in RowsOf(new_data_list, p) :
                (/\ Cardinality(RowsOf(existing_df, p)) = 1
                 /\ Cardinality(RowsOf(new_data_list, p)) = 1
                 /\ Parses(existing_df[i]) /\ Parses(new_data_list[j])
                 /\ NumOf(existing_df[i]) # NumOf(new_data_list[j])) =>
                    OutputFor(p) =
                        {IF NumOf(existing_df[i]) > NumOf(new_data_list[j])
                         THEN existing_df[i] ELSE new_data_list[j]}

\* C2: every participant of either input, those with only unparseable event
\* ids included, has exactly one record in the reconciled output, and the
\* output holds no other participant.
Completeness ==
    recon # "none" =>
        /\ \A p \in RoomsOf(Combined) : Cardinality(RowsOf(final_df, p)) = 1
        /\ RoomsOf(final_df) \subseteq RoomsOf(Combined)

\* C3 as stated: among the records of a participant that share the greatest
\* numeric event id, the output holds the one occurring last in the working
\* collection.
TieBreakLast ==
    recon = "ok" =>
        \A p \in RoomsOf(Combined) :
            Cardinality(MaxRows(p)) > 1 =>
                OutputFor(p) = {Combined[Greatest(MaxRows(p))]}

\* C3 as amended: among the records of a participant that share the greatest
\* numeric event id, the output holds the one occurring first in the working
\* collection (the existing record on a tie with an incoming one); the step
\* raises, and emits nothing, exactly when some participant has no parseable
\* event id.
TieBreakFirst ==
    /\ recon = "ok" =>
        \A p \in RoomsOf(Combined) :
            Cardinality(MaxRows(p)) > 1 =>
                OutputFor(p) = {Combined[Least(MaxRows(p))]}
    /\ recon # "none" =>
        (recon = "raised" <=> \E p \in RoomsOf(Combined) : AllUnparseable(p))
    /\ recon = "raised" => final_df = <<>>

\* A tie between an existing "05" and an incoming "5", the existing one kept.
TieBreakWitness ==
    /\ recon = "ok"
    /\ \E p \in RoomStrs :
        /\ \E i \in RowsOf(existing_df, p) : existing_df[i].event_id = <<"0", "5">>
        /\ \E j \in RowsOf(new_data_list, p) : new_data_list[j].event_id = <<"5">>
        /\ Cardinality(MaxRows(p)) > 1
        /\ OutputFor(p) = {Rec(p, <<"0", "5">>)}

----------------------------------------------------------------------------
(* Claims about main *)

AfterFetch == pc \notin {"start", "fetch", "fetching"}

OpsNamed(name) == {i \in 1..Len(ops) : ops[i].op = name}

\* C4: a failed request (timeout, error status, undecodable body) ends the
\* loop with the records accumulated so far, no further request follows for
\* that event, the records are returned to main without any report of main,
\* and main goes on to fetch every remaining event.
SoftTransportFailure ==
    /\ [][(RequestStep /\ api'[page].kind # "ok") =>
            /\ fstate' = "aborted"
            /\ all_rooms' = all_rooms
            /\ pc' = pc /\ report' = report]_vars
    /\ [][(fstate = "aborted" /\ vars' # vars) =>
            /\ pc = "fetching" /\ pc' = "fetch"
            /\ fstate' = "idle"
            /\ new_data_list' = new_data_list \o all_rooms
            /\ idx' = idx + 1
            /\ report' = report]_vars
    /\ [](AfterFetch =>
            \A i \in 1..Len(event_ids) : event_ids[i] \in DOMAIN cache)

\* The first event's fetch failed on page 2 with the records of page 1 kept,
\* and the second event was fetched after it.
SoftFailureWitness ==
    /\ pc = "secrets"
    /\ Len(event_ids) = 2
    /\ event_ids[1] # event_ids[2]
    /\ \E e \in errors :
        e.event_id = event_ids[1] /\ e.page = 2 /\ e.kind \in FailKinds
    /\ cache[event_ids[1]] # <<>>
    /\ cache[event_ids[2]] # <<>>
    /\ new_data_list = cache[event_ids[1]] \o cache[event_ids[2]]

\* C5: a run whose fetches returned no record at all ends with the failure
\* reported and without any FTP command; a session exists only when at least
\* one record was fetched.
EmptyResultAbort ==
    /\ (AfterFetch /\ event_ids # <<>> /\ new_data_list = <<>>) =>
        pc = "done" /\ report = "no_rooms" /\ ops = <<>> /\ ftp = "none"
    /\ (ops # <<>> \/ ftp # "none") => new_data_list # <<>>

\* Two events fetched, one of them aborted, no record, the run stopped.
EmptyResultWitness ==
    /\ pc = "done"
    /\ report = "no_rooms"
    /\ Len(event_ids) = 2
    /\ errors # {}
    /\ ops = <<>>

SessionSafe ==
    /\ Cardinality(OpsNamed("connect")) <= 1
    /\ ftp # "none" <=> OpsNamed("connect") # {}
    /\ \A i \in 1..Len(ops) :
        /\ ops[i].op # "connect" => ops[i].met = "open"
        /\ ops[i].op = "quit" => i = Len(ops)
        /\ ops[i].op = "upload" =>
            /\ recon = "ok"
            /\ \E j \in 1..(i - 1) : ops[j].op = "download"
    /\ pc = "done" => ftp # "open"
    /\ ftp = "closed" <=> OpsNamed("quit") # {}

\* C6: a run opens at most one session; login, download and upload are
\* issued on it while it is open, upload only after the download and a
\* completed reconciliation; the session is closed in the end on every path,
\* and nothing is issued after the close.
SessionDiscipline ==
    /\ []SessionSafe
    /\ [][ftp = "closed" => (ops' = ops /\ ftp' = "closed")]_vars
    /\ (ftp = "open") ~> (ftp = "closed")

\* The session closed after the reconciliation raised.
SessionWitness ==
    /\ pc = "done"
    /\ ftp = "closed"
    /\ recon = "raised"
    /\ OpsNamed("download") # {}
    /\ OpsNamed("upload") = {}

====
